---------------------------- MODULE Spec2Model ----------------------------
(***************************************************************************)
(* Compensation decision engine and action state machine of powerfour.     *)
(*                                                                         *)
(*   ai.js      (src/unnamed/part_001)  market bands, heuristic scorer,    *)
(*                                      OpenAI bridge, orchestrator, batch *)
(*   routes.js  (src/unnamed/part_000)  HTTP handlers over the employee    *)
(*                                      and action collections             *)
(*   models/    (src/src/models)        the two Mongoose schemas           *)
(*                                                                         *)
(* Conventions of the model                                                *)
(*   - Money is in rupees, as in the source.  JavaScript numbers are       *)
(*     modelled by exact integer / rational arithmetic; the operators      *)
(*     below are arranged so that no intermediate exceeds 2^31.            *)
(*   - Strings whose characters the code inspects (role, performance) are  *)
(*     tuples of one-character strings.                                    *)
(*   - experience is held in half years (expH = 2 * experience).           *)
(*   - A Date is a reading of the logical clock `now`; 0 is "not set".     *)
(*   - An absent / undefined number is 0 together with a missing entry in  *)
(*     the record's `has` set where the code tells the two apart.          *)
(***************************************************************************)
EXTENDS Integers, Sequences, FiniteSets, TLC

(***************************************************************************)
(* Bounds of the model.                                                    *)
(***************************************************************************)
MaxOps == 2          \* requests started
MaxTotal == 2        \* totalEmployees handed to a direct heuristicAnalysis call
MaxBatch == 2        \* employees handed to one analyzeAllEmployees call

(***************************************************************************)
(* Arithmetic helpers.                                                     *)
(***************************************************************************)
Min(a, b) == IF a <= b THEN a ELSE b
Max(a, b) == IF a >= b THEN a ELSE b
Abs(a) == IF a < 0 THEN 0 - a ELSE a

\* Math.round(n / d) for d > 0: the nearest integer, halves towards +infinity.
RoundDiv(n, d) == (2 * n + d) \div (2 * d)

\* Math.round(n / d) for n >= 0 and d > 0, without forming 2 * n.
RoundDivBig(n, d) == (n \div d) + (IF 2 * (n % d) >= d THEN 1 ELSE 0)

\* Math.round(a * b / d) for a >= 0, b >= 0, d > 0, without forming a * b.
RoundMulDiv(a, b, d) == (a \div d) * b + RoundDiv((a % d) * b, d)

(***************************************************************************)
(* Strings.                                                                *)
(***************************************************************************)
UpperChars == <<"A","B","C","D","E","F","G","H","I","J","K","L","M",
                "N","O","P","Q","R","S","T","U","V","W","X","Y","Z">>
LowerChars == <<"a","b","c","d","e","f","g","h","i","j","k","l","m",
                "n","o","p","q","r","s","t","u","v","w","x","y","z">>

UpperSet == {UpperChars[k] : k \in 1..26}
LowerOf == [c \in UpperSet |-> LowerChars[CHOOSE k \in 1..26 : UpperChars[k] = c]]

\* String.prototype.toLowerCase
ToLowerCase(s) ==
  [i \in 1..Len(s) |-> IF s[i] \in UpperSet THEN LowerOf[s[i]] ELSE s[i]]

\* String.prototype.includes
Includes(s, sub) ==
  \E i \in 1..(Len(s) - Len(sub) + 1) : SubSeq(s, i, i + Len(sub) - 1) = sub

K_intern == <<"i","n","t","e","r","n">>
K_junior == <<"j","u","n","i","o","r">>
K_developer == <<"d","e","v","e","l","o","p","e","r">>
K_engineer == <<"e","n","g","i","n","e","e","r">>
K_senior_developer == <<"s","e","n","i","o","r"," ","d","e","v","e","l","o","p","e","r">>
K_senior_engineer == <<"s","e","n","i","o","r"," ","e","n","g","i","n","e","e","r">>
K_lead == <<"l","e","a","d">>
K_manager == <<"m","a","n","a","g","e","r">>
K_senior_manager == <<"s","e","n","i","o","r"," ","m","a","n","a","g","e","r">>
K_director == <<"d","i","r","e","c","t","o","r">>
K_sales == <<"s","a","l","e","s">>
K_unknown == <<"u","n","k","n","o","w","n">>

S_excel == <<"e","x","c","e","l">>
S_ex == <<"e","x">>
S_good == <<"g","o","o","d">>
S_avg == <<"a","v","g">>
S_average == <<"a","v","e","r","a","g","e">>
S_poor == <<"p","o","o","r">>
S_low == <<"l","o","w">>

(***************************************************************************)
(* Market Band Table.                                                      *)
(***************************************************************************)
Band(lo, mi, hi) == [min |-> lo, mid |-> mi, max |-> hi]

MarketKeys ==
  {K_intern, K_junior, K_developer, K_engineer, K_senior_developer,
   K_senior_engineer, K_lead, K_manager, K_senior_manager, K_director,
   K_sales, K_unknown}

MARKET_SALARY_RANGES(k) ==
  CASE k = K_intern -> Band(180000, 300000, 480000)
    [] k = K_junior -> Band(360000, 500000, 700000)
    [] k = K_developer -> Band(600000, 1000000, 1800000)
    [] k = K_engineer -> Band(600000, 1000000, 1800000)
    [] k = K_senior_developer -> Band(1200000, 1800000, 2800000)
    [] k = K_senior_engineer -> Band(1200000, 1800000, 2800000)
    [] k = K_lead -> Band(1500000, 2200000, 3500000)
    [] k = K_manager -> Band(1200000, 1800000, 3000000)
    [] k = K_senior_manager -> Band(1800000, 2500000, 4000000)
    [] k = K_director -> Band(2500000, 4000000, 6000000)
    [] k = K_sales -> Band(400000, 800000, 1500000)
    [] k = K_unknown -> Band(400000, 700000, 1200000)

\* (emp.role || "unknown").toLowerCase()
RoleKey(emp) == ToLowerCase(IF emp.role = <<>> THEN K_unknown ELSE emp.role)

\* MARKET_SALARY_RANGES[role] || MARKET_SALARY_RANGES["unknown"]
MarketRange(emp) ==
  IF RoleKey(emp) \in MarketKeys
  THEN MARKET_SALARY_RANGES(RoleKey(emp))
  ELSE MARKET_SALARY_RANGES(K_unknown)

(***************************************************************************)
(* Performance: a number, a string, or missing.                            *)
(***************************************************************************)
PerfNum(n) == [kind |-> "number", num |-> n, str |-> <<>>]
PerfStr(s) == [kind |-> "string", num |-> 0, str |-> s]
PerfNone == [kind |-> "undefined", num |-> 0, str |-> <<>>]

PerfScore(emp) ==
  LET p == emp.performance
      s == ToLowerCase(p.str)
  IN  IF p.kind = "number" THEN Max(0, Min(10, p.num))
      ELSE IF p.kind = "string" THEN
        IF Includes(s, S_excel) \/ Includes(s, S_ex) THEN 9
        ELSE IF Includes(s, S_good) THEN 7
        ELSE IF Includes(s, S_avg) \/ Includes(s, S_average) THEN 5
        ELSE IF Includes(s, S_poor) \/ Includes(s, S_low) THEN 2
        ELSE 5
      ELSE 5

\* A budget argument: a number, or undefined.  The code only ever tests its
\* truthiness (budget ? .. , budget && .., !budget).
Budget(v) == [has |-> TRUE, v |-> v]
NoBudget == [has |-> FALSE, v |-> 0]
Truthy(budget) == budget.has /\ budget.v # 0


(***************************************************************************)
(* Heuristic Scorer: calculateSuggestedSalary.                             *)
(* An employee handed to the scorer is a record with the fields            *)
(*   ssid, role, performance, expH, salary, revenue, status.               *)
(* Intermediate values are passed on as arguments, as the code's consts.   *)
(***************************************************************************)

\* 48 * baseSalary / 1000 for band r and experience e in half years: every
\* band value is a multiple of 1000 and every interpolation weight a
\* multiple of 1/48.
Interpolate48(r, e) ==
  LET lo == r.min \div 1000
      mi == r.mid \div 1000
      hi == r.max \div 1000
  IN  IF e <= 4 THEN 48 * lo + (mi - lo) * e * 12
      ELSE IF e <= 10 THEN 48 * mi + (hi - mi) * (e - 4) * 4
      ELSE 48 * mi + (hi - mi) * Min(48, (e - 4) * 3)

Base48(emp) == Interpolate48(MarketRange(emp), emp.expH)

\* 20 * budgetFactor: 17 (0.85, tight), 22 (1.1, generous) or 20.
BudgetFactor20(b48, budget, totalEmployees) ==
  IF Truthy(budget) /\ totalEmployees > 0
  THEN IF budget.v * 3 < b48 * 50 * totalEmployees THEN 17
       ELSE IF budget.v * 4 > b48 * 125 * totalEmployees THEN 22
       ELSE 20
  ELSE 20

\* suggestedSalary after "Round to nearest 1000", before the clamp.
RoundedSalary(revenue, perf, b48, bf) ==
  IF revenue > 0
  THEN 1000 * RoundMulDiv(b48 * (20 + perf) * 50 + revenue * 54, bf, 3000000)
  ELSE 1000 * RoundDiv(b48 * (20 + perf) * bf, 24000)

\* A scorer that rounds and does not clamp.
ClampToBandSkipped(r, s) == s

\* Math.max(marketRange.min * 0.9, Math.min(marketRange.max * 1.2, s))
ClampToBand(r, s) == Max((r.min * 9) \div 10, Min((r.max * 6) \div 5, s))

\* A scorer that takes the difference against an unset salary too.
SalaryAnalysisAlwaysDiff(currentSalary, revenue, r, perf, b48, bf) ==
  LET suggested == ClampToBand(r, RoundedSalary(revenue, perf, b48, bf))
      diff == suggested - currentSalary
  IN  [suggestedSalary |-> suggested,
       salaryDifference |-> diff,
       salaryDifferencePercent |->
         IF currentSalary > 0 THEN RoundDiv(diff * 100, currentSalary) ELSE 0,
       marketRange |-> r,
       factors |->
         [baseSalary |-> RoundDiv(b48 * 1000, 48),
          perfMultiplier |-> 4 * (20 + perf),
          revenueBasedSalary |->
            IF revenue > 0 THEN RoundDiv(revenue * 3, 5) ELSE 0,
          budgetFactor |-> 5 * bf]]

\* The object calculateSuggestedSalary returns, from its consts.
SalaryAnalysis(currentSalary, revenue, r, perf, b48, bf) ==
  LET suggested == ClampToBand(r, RoundedSalary(revenue, perf, b48, bf))
      diff == IF currentSalary > 0 THEN suggested - currentSalary ELSE 0
  IN  [suggestedSalary |-> suggested,
       salaryDifference |-> diff,
       salaryDifferencePercent |->
         IF currentSalary > 0 THEN RoundDiv(diff * 100, currentSalary) ELSE 0,
       marketRange |-> r,
       factors |->
         [baseSalary |-> RoundDiv(b48 * 1000, 48),
          perfMultiplier |-> 4 * (20 + perf),                  \* in 1/100
          revenueBasedSalary |->
            IF revenue > 0 THEN RoundDiv(revenue * 3, 5) ELSE 0,
          budgetFactor |-> 5 * bf]]                            \* in 1/100

calculateSuggestedSalary(emp, budget, totalEmployees) ==
  SalaryAnalysis(emp.salary, emp.revenue, MarketRange(emp), PerfScore(emp),
                 Base48(emp),
                 BudgetFactor20(Base48(emp), budget, totalEmployees))

(***************************************************************************)
(* Heuristic Scorer: heuristicAnalysis.                                    *)
(***************************************************************************)
RoleRevenueKeys ==
  {K_engineer, K_developer, K_senior_developer, K_manager, K_sales,
   K_intern, K_unknown}

roleRevenue(k) ==
  CASE k = K_engineer -> 2000000
    [] k = K_developer -> 2000000
    [] k = K_senior_developer -> 3500000
    [] k = K_manager -> 4000000
    [] k = K_sales -> 5000000
    [] k = K_intern -> 200000
    [] k = K_unknown -> 1200000

\* currentSalary || marketRange.mid
EstimatedSalary(emp) ==
  IF emp.salary # 0 THEN emp.salary ELSE MarketRange(emp).mid

\* emp.revenue || roleRevenue[role] || roleRevenue["unknown"]
EstimatedRevenue(emp) ==
  IF emp.revenue # 0 THEN emp.revenue
  ELSE IF RoleKey(emp) \in RoleRevenueKeys THEN roleRevenue(RoleKey(emp))
  ELSE roleRevenue(K_unknown)

\* A scorer that fires on low performance only.
HeuristicActionPerfOnly(perf, est, profit, budget) ==
  IF perf <= 3 THEN "FIRE"
  ELSE IF /\ perf >= 8
          /\ 5 * profit > est
          /\ (~Truthy(budget) \/ 10 * budget.v > est)
       THEN "PROMOTE"
  ELSE IF 20 * profit < est \/ (Truthy(budget) /\ budget.v < 0)
       THEN "DECREASE_SALARY"
  ELSE "NO_CHANGE"

\* A scorer that promotes a perfect performance score only.
HeuristicActionTopOnly(perf, est, profit, budget) ==
  IF perf <= 3 \/ 5 * profit < 0 - est THEN "FIRE"
  ELSE IF /\ perf >= 10
          /\ 5 * profit > est
          /\ (~Truthy(budget) \/ 10 * budget.v > est)
       THEN "PROMOTE"
  ELSE IF 20 * profit < est \/ (Truthy(budget) /\ budget.v < 0)
       THEN "DECREASE_SALARY"
  ELSE "NO_CHANGE"

\* The decision thresholds, in priority order.
HeuristicAction(perf, est, profit, budget) ==
  IF perf <= 3 \/ 5 * profit < 0 - est THEN "FIRE"
  ELSE IF /\ perf >= 8
          /\ 5 * profit > est
          /\ (~Truthy(budget) \/ 10 * budget.v > est)
       THEN "PROMOTE"
  ELSE IF 20 * profit < est \/ (Truthy(budget) /\ budget.v < 0)
       THEN "DECREASE_SALARY"
  ELSE "NO_CHANGE"

\* Number(confidence.toFixed(2)), in 1/100.
\*   score = (5 profit / m + (perf - 5) / 2 + min(exp, 10) / 10) * bf
\*   confidence = min(0.95, max(0.2, 0.5 + |score| / 10))
\* With m = max(1, estimatedSalary) and t = 10 (perf - 5) + min(expH, 20),
\* 10 |score| = |100 profit + t m| * bf / (2 m), and bf is 1 or 1/2.
HeuristicConfidence(perf, expH, est, profit, budget) ==
  LET m == Max(1, est)
      t == 10 * (perf - 5) + Min(expH, 20)
      halved == Truthy(budget) /\ budget.v <= 0               \* bf = 1/2
  IN  IF Abs(profit) >= 3 * m THEN 95
      ELSE Min(95, Max(20, 50 + RoundDivBig(Abs(100 * profit + t * m),
                                            IF halved THEN 4 * m ELSE 2 * m)))

NoBand == Band(0, 0, 0)
NoFactors ==
  [baseSalary |-> 0, perfMultiplier |-> 0, revenueBasedSalary |-> 0,
   budgetFactor |-> 0]
NoReason == [src |-> "", nums |-> <<>>]

HeuristicKeys ==
  {"action", "confidence", "reason", "recommended_change_percent",
   "currentSalary", "suggestedSalary", "salaryDifference",
   "salaryDifferencePercent", "marketSalaryRange", "salaryFactors",
   "estimatedRevenue", "profit"}

\* The object heuristicAnalysis returns, from its consts.
HeuristicResult(expH, budget, perf, estimatedSalary, estimatedRevenue, salaryAnalysis) ==
  LET profit == estimatedRevenue - estimatedSalary
      action == HeuristicAction(perf, estimatedSalary, profit, budget)
  IN  [has |-> HeuristicKeys,
       action |-> action,
       confidence |->
         HeuristicConfidence(perf, expH, estimatedSalary, profit, budget),
       reason |->
         [src |-> "Heuristic",
          nums |-> <<estimatedRevenue, estimatedSalary, profit, perf, expH,
                     IF Truthy(budget) THEN budget.v ELSE 0>>],
       recommended_change_percent |->
         IF action = "PROMOTE" THEN 10
         ELSE IF action = "DECREASE_SALARY" THEN 0 - 10 ELSE 0,
       currentSalary |-> estimatedSalary,
       suggestedSalary |-> salaryAnalysis.suggestedSalary,
       salaryDifference |-> salaryAnalysis.salaryDifference,
       salaryDifferencePercent |-> salaryAnalysis.salaryDifferencePercent,
       salaryReason |-> <<>>,
       marketSalaryRange |-> salaryAnalysis.marketRange,
       salaryFactors |-> salaryAnalysis.factors,
       estimatedRevenue |-> estimatedRevenue,
       profit |-> profit,
       estimatedSalary |-> 0,      \* never a key of the result (not in has)
       using |-> ""]

heuristicAnalysis(emp, budget, totalEmployees) ==
  HeuristicResult(emp.expH, budget, PerfScore(emp), EstimatedSalary(emp),
                  EstimatedRevenue(emp),
                  calculateSuggestedSalary(emp, budget, totalEmployees))


(***************************************************************************)
(* AI Advisor Bridge: callOpenAI.                                          *)
(* What axios.post and JSON.parse hand back is an outcome:                 *)
(*   "error"        axios rejects (network error, non-2xx)                 *)
(*   "empty"        no message content: throw "Empty response from OpenAI" *)
(*   "unparseable"  JSON.parse throws                                      *)
(*   "payload"      an object; p.has names the keys it carries             *)
(***************************************************************************)
NoPayload ==
  [has |-> {}, action |-> "", confidence |-> 0,
   recommended_change_percent |-> 0, suggestedSalary |-> 0,
   salaryReason |-> <<>>, salaryDifference |-> 0,
   salaryDifferencePercent |-> 0, estimatedSalary |-> 0]

ThrowsOutcome(kind) == [kind |-> kind, p |-> NoPayload]

PayloadOutcome(p) == [kind |-> "payload", p |-> p]

FallbackNote == " (Salary calculated using market analysis)"

\* Math.round(n / d) for any d # 0.
RoundQ(n, d) == IF d > 0 THEN RoundDiv(n, d) ELSE RoundDiv(0 - n, 0 - d)

\* parsed.suggestedSalary && parsed.suggestedSalary < 10000
TooLow(p) ==
  "suggestedSalary" \in p.has /\ p.suggestedSalary # 0
                              /\ p.suggestedSalary < 10000

\* The parsed payload after the sanity correction and the recomputation of
\* the difference fields (lines 337-357); `suggested` is parsed.suggestedSalary
\* after the correction, 0 when absent.
ParsedResult(currentSalary, p, suggested, marketRange) ==
  LET recompute == suggested # 0 /\ currentSalary # 0
      diff == suggested - currentSalary
  IN  [has |->
         (p.has \cup {"marketSalaryRange", "currentSalary"})
         \cup (IF TooLow(p) THEN {"suggestedSalary", "salaryReason"} ELSE {})
         \cup (IF recompute
               THEN {"salaryDifference", "salaryDifferencePercent"} ELSE {}),
       action |-> IF "action" \in p.has THEN p.action ELSE "",
       confidence |-> IF "confidence" \in p.has THEN p.confidence ELSE 0,
       reason |-> IF "reason" \in p.has
                  THEN [src |-> "model", nums |-> <<>>] ELSE NoReason,
       recommended_change_percent |->
         IF "recommended_change_percent" \in p.has
         THEN p.recommended_change_percent ELSE 0,
       currentSalary |-> currentSalary,
       suggestedSalary |-> suggested,
       salaryDifference |->
         IF recompute THEN diff
         ELSE IF "salaryDifference" \in p.has THEN p.salaryDifference ELSE 0,
       salaryDifferencePercent |->
         IF recompute THEN RoundQ(diff * 100, currentSalary)
         ELSE IF "salaryDifferencePercent" \in p.has
              THEN p.salaryDifferencePercent ELSE 0,
       salaryReason |->
         IF TooLow(p)
         THEN Append(IF "salaryReason" \in p.has THEN p.salaryReason ELSE <<>>,
                     FallbackNote)
         ELSE IF "salaryReason" \in p.has THEN p.salaryReason ELSE <<>>,
       marketSalaryRange |-> marketRange,
       salaryFactors |-> NoFactors,
       estimatedRevenue |-> 0,
       profit |-> 0,
       estimatedSalary |->
         IF "estimatedSalary" \in p.has THEN p.estimatedSalary ELSE 0,
       using |-> ""]

\* The sanity correction: a too-low suggestedSalary is replaced by the
\* market-based one.
CorrectedSalary(p, salaryAnalysis) ==
  IF TooLow(p) THEN salaryAnalysis.suggestedSalary
  ELSE IF "suggestedSalary" \in p.has THEN p.suggestedSalary ELSE 0

\* The object callOpenAI returns for a parsed payload p.
BridgeResult(employee, budget, totalEmployees, p) ==
  ParsedResult(employee.salary, p,
               CorrectedSalary(p, calculateSuggestedSalary(employee, budget,
                                                           totalEmployees)),
               MarketRange(employee))

\* callOpenAI once the service has answered: a value, or a throw (value is
\* then not looked at).
callOpenAI(employee, budget, totalEmployees, outcome) ==
  [threw |-> outcome.kind # "payload",
   value |-> BridgeResult(employee, budget, totalEmployees, outcome.p)]

(***************************************************************************)
(* Decision Orchestrator: analyzeEmployee.                                 *)
(***************************************************************************)
Tagged(s, tag) == [s EXCEPT !.has = @ \cup {"using"}, !.using = tag]

\* return { ...heuristic, using: "heuristic" } when no key is configured
analyzeEmployeeNoKey(employee, budget, totalEmployees) ==
  [threw |-> FALSE,
   value |-> Tagged(heuristicAnalysis(employee, budget, totalEmployees), "heuristic")]

\* analyzeEmployee taking any parsed payload as the answer, action or not.
TryAiRespAnyPayload(heuristic, aiResp) ==
  IF aiResp.threw
  THEN [threw |-> FALSE, value |-> Tagged(heuristic, "heuristic")]
  ELSE [threw |-> FALSE, value |-> Tagged(aiResp.value, "openai")]

\* analyzeEmployee without the try / catch.
TryAiRespNoCatch(heuristic, aiResp) ==
  IF aiResp.threw
  THEN [threw |-> TRUE, value |-> Tagged(heuristic, "heuristic")]
  ELSE IF aiResp.value.action # ""
  THEN [threw |-> FALSE, value |-> Tagged(aiResp.value, "openai")]
  ELSE [threw |-> FALSE, value |-> Tagged(heuristic, "heuristic")]

\* try { aiResp = await callOpenAI(..); if (aiResp && aiResp.action) return
\* { ...aiResp, using: "openai" } } catch { }  return { ...heuristic, .. }
TryAiResp(heuristic, aiResp) ==
  IF aiResp.threw
  THEN [threw |-> FALSE, value |-> Tagged(heuristic, "heuristic")]
  ELSE IF aiResp.value.action # ""
  THEN [threw |-> FALSE, value |-> Tagged(aiResp.value, "openai")]
  ELSE [threw |-> FALSE, value |-> Tagged(heuristic, "heuristic")]

\* analyzeEmployee with a key configured, once the service has answered
analyzeEmployee(employee, budget, totalEmployees, outcome) ==
  TryAiResp(heuristicAnalysis(employee, budget, totalEmployees),
            callOpenAI(employee, budget, totalEmployees, outcome))


(***************************************************************************)
(* Mongoose schemas (models/Employee.js, models/Action.js).                *)
(***************************************************************************)
SuggestionSchemaKeys ==
  {"action", "confidence", "reason", "recommended_change_percent",
   "currentSalary", "suggestedSalary", "salaryDifference",
   "salaryDifferencePercent", "salaryReason", "marketSalaryRange",
   "salaryFactors", "estimatedRevenue", "profit", "using"}

\* An employee document without a suggestion.
NoSuggestion ==
  [has |-> {}, action |-> "", confidence |-> 0, reason |-> NoReason,
   recommended_change_percent |-> 0, currentSalary |-> 0,
   suggestedSalary |-> 0, salaryDifference |-> 0,
   salaryDifferencePercent |-> 0, salaryReason |-> <<>>,
   marketSalaryRange |-> NoBand, salaryFactors |-> NoFactors,
   estimatedRevenue |-> 0, profit |-> 0, estimatedSalary |-> 0, using |-> ""]

\* Casting an object to suggestionSchema (strict): keys the schema does not
\* declare are dropped.
CastSuggestion(s) ==
  [s EXCEPT !.has = @ \cap SuggestionSchemaKeys, !.estimatedSalary = 0]

ActionDetailsSchemaKeys ==
  {"effect", "previousSalary", "newSalary", "changePercent",
   "previousStatus", "newStatus"}

NoDetails ==
  [has |-> {}, effect |-> "", previousSalary |-> 0, newSalary |-> 0,
   changePercent |-> 0, previousStatus |-> "", newStatus |-> "", salary |-> 0]

\* Casting actionDetails to actionSchema.details (strict).
CastDetails(d) ==
  [d EXCEPT !.has = @ \cap ActionDetailsSchemaKeys, !.salary = 0]

\* A new Employee document: the schema's defaults around the core fields.
NewEmployee(ssid) ==
  [ssid |-> ssid, role |-> <<>>, performance |-> PerfNone, expH |-> 0,
   salary |-> 0, revenue |-> 0, status |-> "ACTIVE",
   suggestion |-> NoSuggestion, lastAnalyzed |-> 0, lastPromotedAt |-> 0,
   terminatedAt |-> 0]


\* No direct call of the scorer in flight.
IdleCall ==
  [pc |-> "idle", emp |-> NewEmployee(""), budget |-> NoBudget,
   totalEmployees |-> 0, result |-> NoSuggestion]

(***************************************************************************)
(* State.                                                                  *)
(***************************************************************************)
VARIABLES
  employees,   \* the employees collection: ssid -> document
  actions,     \* the actions collection, in insertion order
  req,         \* POST /action requests in flight, one per slot
  batch,       \* the analyzeAllEmployees call (and POST /analyze) in flight
  apiKey,      \* OPENAI_KEY is configured
  now,         \* the clock new Date() reads
  nOps,        \* requests started so far
  nApplied,    \* POST /action responses { ok: true } sent so far
  resp,        \* the last 400 / 404 response POST /action sent
  call         \* a direct call of heuristicAnalysis and what it returned

vars ==
  <<employees, actions, req, batch, apiKey, now, nOps, nApplied, resp, call>>

(***************************************************************************)
(* Inputs.                                                                 *)
(***************************************************************************)
Ssids == {"e1", "e2"}
SsidOrder == <<"e1", "e2">>       \* the order Employee.find() returns them in
Slots == {1, 2}
SerialSlots == {1}    \* Spec takes POST /action one at a time; SpecConc overlaps two
ValidActions == {"FIRE", "PROMOTE", "DECREASE_SALARY", "NO_CHANGE"}

S_Engineer == <<"E","n","g","i","n","e","e","r">>
S_Poor == <<"P","o","o","r">>

\* Request bodies of POST /employees: the core fields.
CoreA ==
  [role |-> S_Engineer, performance |-> PerfNum(9), expH |-> 12,
   salary |-> 1000000, revenue |-> 3000000]
CoreB ==
  [role |-> <<>>, performance |-> PerfStr(S_Poor), expH |-> 3,
   salary |-> 0, revenue |-> 0]
CoreInputs == {CoreA, CoreB}
\* A salary whose tenth is not a whole number of rupees.
CoreD == [CoreA EXCEPT !.salary = 1000005]

\* changePercent of POST /action: a number, or undefined.
Percent(p) == [has |-> TRUE, v |-> p]
NoPercent == [has |-> FALSE, v |-> 0]
PercentInputs == {NoPercent, Percent(10), Percent(0 - 150)}
NoteInputs == {"approved"}
BudgetInputs == {Budget(5000000)}

(***************************************************************************)
(* POST /employees and POST /employees/bulk.                               *)
(***************************************************************************)
\* findOneAndUpdate({ssid}, {$set: fields}, {upsert: true}) on the collection.
Upsert(coll, ssid, core, setStatus, status) ==
  LET old == IF ssid \in DOMAIN coll THEN coll[ssid] ELSE NewEmployee(ssid)
      new == [old EXCEPT !.role = core.role,
                         !.performance = core.performance,
                         !.expH = core.expH,
                         !.salary = core.salary,
                         !.revenue = core.revenue,
                         !.status = IF setStatus THEN status ELSE @]
  IN  [s \in DOMAIN coll \cup {ssid} |-> IF s = ssid THEN new ELSE coll[s]]

PostEmployee(ssid, core) ==
  /\ nOps < MaxOps
  /\ employees' = Upsert(employees, ssid, core, TRUE, "ACTIVE")
  /\ nOps' = nOps + 1
  /\ UNCHANGED <<actions, req, batch, apiKey, now, nApplied, resp, call>>

\* An element of the bulk body: ssid "" is a missing ssid, status "" a
\* missing status.
BulkEntries ==
  [ssid : Ssids \cup {""}, core : CoreInputs, status : {"", "ACTIVE", "FIRED"}]

RECURSIVE BulkLoop(_, _)
BulkLoop(coll, body) ==
  IF body = <<>> THEN coll
  ELSE LET emp == Head(body)
       IN  IF emp.ssid = "" THEN BulkLoop(coll, Tail(body))
           ELSE BulkLoop(
                  Upsert(coll, emp.ssid, emp.core, TRUE,
                         IF emp.status = "" THEN "ACTIVE" ELSE emp.status),
                  Tail(body))

PostEmployeesBulk(body) ==
  /\ nOps < MaxOps
  /\ employees' = BulkLoop(employees, body)
  /\ nOps' = nOps + 1
  /\ UNCHANGED <<actions, req, batch, apiKey, now, nApplied, resp, call>>

(***************************************************************************)
(* POST /action.                                                           *)
(***************************************************************************)
\* A 400 / 404 response of POST /action: the n-th one sent, its HTTP status,
\* and the ssid and action of the request it answers ("" when the body had
\* none).
NoResponse == [n |-> 0, status |-> 0, ssid |-> "", action |-> ""]
Response(last, status, ssid, action) ==
  [n |-> last.n + 1, status |-> status, ssid |-> ssid, action |-> action]

\* The checks with the lookup of the employee ahead of the validation of the
\* action.
RequestStatusLookupFirst(coll, ssid, action) ==
  IF ssid = "" \/ action = "" THEN 400
  ELSE IF ssid \notin DOMAIN coll THEN 404
  ELSE IF action \notin ValidActions THEN 400
  ELSE 0

\* The status the handler answers with before it touches anything, or 0 when
\* the request goes through (lines 286-300).
RequestStatus(coll, ssid, action) ==
  IF ssid = "" \/ action = "" THEN 400
  ELSE IF action \notin ValidActions THEN 400
  ELSE IF ssid \notin DOMAIN coll THEN 404
  ELSE 0

\* What a POST /action body may carry for ssid and action ("" is a missing
\* field; an ssid of Ssids is unknown until it has been upserted).
SsidInputs == Ssids \cup {""}
ActionInputs == ValidActions \cup {"", "HIRE"}

\* The request is answered 400 or 404 (lines 284-300).
ActReject(ssid, action) ==
  /\ nOps < MaxOps
  /\ RequestStatus(employees, ssid, action) # 0
  /\ resp' = Response(resp, RequestStatus(employees, ssid, action), ssid, action)
  /\ nOps' = nOps + 1
  /\ UNCHANGED <<employees, actions, req, batch, apiKey, now, nApplied, call>>

MutablePaths == {"status", "salary", "terminatedAt", "lastPromotedAt"}

\* The part of an employee document POST /action assigns to.
MutableView(doc) ==
  [status |-> doc.status, salary |-> doc.salary,
   terminatedAt |-> doc.terminatedAt, lastPromotedAt |-> doc.lastPromotedAt]

IdleSlot ==
  [pc |-> "idle", ssid |-> "", action |-> "", note |-> "",
   changePercent |-> NoPercent,
   loaded |-> MutableView(NewEmployee("")), set |-> [f \in {} |-> 0],
   details |-> NoDetails]

\* salaryChangePercent (lines 303-307)
SalaryChangePercent(emp, action, changePercent) ==
  IF changePercent.has THEN changePercent.v
  ELSE IF "recommended_change_percent" \in emp.suggestion.has
          /\ emp.suggestion.recommended_change_percent # 0
       THEN emp.suggestion.recommended_change_percent
  ELSE IF action = "PROMOTE" THEN 10
  ELSE IF action = "DECREASE_SALARY" THEN 0 - 10
  ELSE 0

\* previousSalary (line 309)
PreviousSalary(emp) ==
  IF emp.salary # 0 THEN emp.salary
  ELSE IF "estimatedSalary" \in emp.suggestion.has
          /\ emp.suggestion.estimatedSalary # 0
       THEN emp.suggestion.estimatedSalary
  ELSE 0

\* The new salary cut off to whole rupees instead of rounded.
NewSalaryTruncated(previousSalary, salaryChangePercent) ==
  (previousSalary * (100 + salaryChangePercent)) \div 100

\* Math.round(previousSalary * (1 + salaryChangePercent / 100))
NewSalary(previousSalary, salaryChangePercent) ==
  RoundDiv(previousSalary * (100 + salaryChangePercent), 100)

\* The switch (lines 314-361): the document as assigned by the handler.
ApplySwitch(emp, action, changePercent, t) ==
  LET pct == SalaryChangePercent(emp, action, changePercent)
      newSalary == NewSalary(PreviousSalary(emp), pct)
  IN  CASE action = "FIRE" ->
             [emp EXCEPT !.status = "FIRED", !.terminatedAt = t]
        [] action = "PROMOTE" ->
             [emp EXCEPT !.status = "ACTIVE", !.salary = newSalary,
                         !.lastPromotedAt = t]
        [] action = "DECREASE_SALARY" ->
             [emp EXCEPT !.status = "ACTIVE", !.salary = newSalary]
        [] action = "NO_CHANGE" ->
             [emp EXCEPT !.status = "ACTIVE"]

\* actionDetails as built by the switch.
ActionDetails(emp, action, changePercent) ==
  LET pct == SalaryChangePercent(emp, action, changePercent)
      previousSalary == PreviousSalary(emp)
      newSalary == NewSalary(previousSalary, pct)
  IN  CASE action = "FIRE" ->
             [NoDetails EXCEPT !.has = {"effect", "previousStatus", "newStatus"},
                               !.effect = "Employee terminated",
                               !.previousStatus = "ACTIVE",
                               !.newStatus = "FIRED"]
        [] action \in {"PROMOTE", "DECREASE_SALARY"} ->
             [NoDetails EXCEPT !.has = {"effect", "previousSalary", "newSalary",
                                        "changePercent"},
                               !.effect = IF action = "PROMOTE"
                                          THEN "Salary increased"
                                          ELSE "Salary decreased",
                               !.previousSalary = previousSalary,
                               !.newSalary = newSalary,
                               !.changePercent = pct]
        [] action = "NO_CHANGE" ->
             [NoDetails EXCEPT !.has = {"effect", "salary"},
                               !.effect = "No changes made",
                               !.salary = previousSalary]

\* The paths Mongoose tracks as modified: those assigned a different value.
ModifiedPaths(loaded, doc) == {f \in MutablePaths : doc[f] # loaded[f]}

\* Employee.findOne({ssid}) resolves with a document; the handler runs to
\* emp.save() (lines 284-364).  Unknown ssid: 404, nothing changes.  The
\* slot keeps the request body, the assigned paths as they were loaded, the
\* $set that save() will send, and actionDetails.
ActLoad(s, ssid, action, note, changePercent) ==
  /\ req[s].pc = "idle"
  /\ nOps < MaxOps
  /\ RequestStatus(employees, ssid, action) = 0
  /\ LET emp == employees[ssid]
         readsClock == action \in {"FIRE", "PROMOTE"}
         doc == ApplySwitch(emp, action, changePercent, now)
     IN  /\ req' = [req EXCEPT ![s] =
                      [pc |-> "loaded", ssid |-> ssid, action |-> action,
                       note |-> note, changePercent |-> changePercent,
                       loaded |-> MutableView(emp),
                       set |-> [f \in ModifiedPaths(emp, doc) |-> doc[f]],
                       details |-> ActionDetails(emp, action, changePercent)]]
         /\ now' = IF readsClock THEN now + 1 ELSE now
  /\ nOps' = nOps + 1
  /\ UNCHANGED <<employees, actions, batch, apiKey, nApplied, resp, call>>

\* A save whose update has no filter: the $set goes to every document.
SaveDocumentUnfiltered(coll, ssid, set) ==
  [s \in DOMAIN coll |->
     [f \in DOMAIN coll[s] |-> IF f \in DOMAIN set THEN set[f] ELSE coll[s][f]]]

\* emp.save(): updateOne({_id}, {$set: <the modified paths>}).
SaveDocument(coll, ssid, set) ==
  [coll EXCEPT ![ssid] =
     [f \in DOMAIN @ |-> IF f \in DOMAIN set THEN set[f] ELSE @[f]]]

ActSave(s) ==
  /\ req[s].pc = "loaded"
  /\ employees' = SaveDocument(employees, req[s].ssid, req[s].set)
  /\ req' = [req EXCEPT ![s].pc = "saved"]
  /\ UNCHANGED <<actions, batch, apiKey, now, nOps, nApplied, resp, call>>

\* Action.create({ssid, action, note: note || null, details, appliedAt}).
ActionDocument(slot, t) ==
  [ssid |-> slot.ssid, action |-> slot.action,
   note |-> IF slot.note = "" THEN "null" ELSE slot.note,
   details |-> CastDetails(slot.details), appliedAt |-> t]

\* A history keeping one record per employee (the newest).
CreateActionUpsert(coll, slot, t) ==
  Append(SelectSeq(coll, LAMBDA r : r.ssid # slot.ssid), ActionDocument(slot, t))

CreateAction(coll, slot, t) == Append(coll, ActionDocument(slot, t))

\* Action.create resolves and the response is sent (lines 367-394).
ActCreate(s) ==
  /\ req[s].pc = "saved"
  /\ actions' = CreateAction(actions, req[s], now)
  /\ now' = now + 1
  /\ req' = [req EXCEPT ![s] = IdleSlot]
  /\ nApplied' = nApplied + 1
  /\ UNCHANGED <<employees, batch, apiKey, nOps, resp, call>>

\* Action.create rejects: next(err), a 500, and no history record.
ActCreateFails(s) ==
  /\ req[s].pc = "saved"
  /\ req' = [req EXCEPT ![s] = IdleSlot]
  /\ UNCHANGED <<employees, actions, batch, apiKey, now, nOps, nApplied, resp, call>>

\* emp.save() rejects: next(err), a 500, nothing written.
ActSaveFails(s) ==
  /\ req[s].pc = "loaded"
  /\ req' = [req EXCEPT ![s] = IdleSlot]
  /\ UNCHANGED <<employees, actions, batch, apiKey, now, nOps, nApplied, resp, call>>


(***************************************************************************)
(* Batch Analyzer: analyzeAllEmployees.                                    *)
(*   batch.pc  "idle"      no call in flight                               *)
(*             "called"    analyzeAllEmployees(emps, budget) entered       *)
(*             "awaiting"  inside callOpenAI, awaiting axios.post          *)
(*             "hung"      awaiting an axios.post that never settles       *)
(*             "returned"  { results, summary } returned to the caller     *)
(*             "failed"    the call rejected                               *)
(* batch.answers keeps what the service answered, call by call.            *)
(***************************************************************************)
\* summary, as far as the counts go (lines 395-417).
NoSummary ==
  [totalEmployees |-> 0, totalCurrentSalaries |-> 0,
   totalSuggestedSalaries |-> 0, totalRevenue |-> 0, projectedSavings |-> 0,
   actionBreakdown |-> [a \in ValidActions |-> 0]]

\* xs.reduce((sum, x) => sum + (x || 0), 0) over a sequence of numbers
RECURSIVE SumSeq(_)
SumSeq(xs) == IF xs = <<>> THEN 0 ELSE xs[1] + SumSeq(Tail(xs))

\* results.filter((r) => r.suggestion.action === a).length
CountAction(results, a) ==
  Cardinality({i \in 1..Len(results) : results[i].suggestion.action = a})

\* summary.projectedSavings = totalCurrentSalaries - totalSuggestedSalaries
WithSavings(summary) ==
  [summary EXCEPT !.projectedSavings =
     summary.totalCurrentSalaries - summary.totalSuggestedSalaries]

\* A summary adding up the currentSalary the suggestions report.
SummaryFromSuggestions(emps, results) ==
  WithSavings(
    [totalEmployees |-> Len(emps),
     totalCurrentSalaries |->
       SumSeq([i \in 1..Len(results) |-> results[i].suggestion.currentSalary]),
     totalSuggestedSalaries |->
       SumSeq([i \in 1..Len(results) |-> results[i].suggestion.suggestedSalary]),
     totalRevenue |-> SumSeq([i \in 1..Len(emps) |-> emps[i].revenue]),
     projectedSavings |-> 0,
     actionBreakdown |-> [a \in ValidActions |-> CountAction(results, a)]])

Summary(emps, results) ==
  WithSavings(
    [totalEmployees |-> Len(emps),
     totalCurrentSalaries |-> SumSeq([i \in 1..Len(emps) |-> emps[i].salary]),
     totalSuggestedSalaries |->
       SumSeq([i \in 1..Len(results) |-> results[i].suggestion.suggestedSalary]),
     totalRevenue |-> SumSeq([i \in 1..Len(emps) |-> emps[i].revenue]),
     projectedSavings |-> 0,
     actionBreakdown |-> [a \in ValidActions |-> CountAction(results, a)]])

IdleBatch ==
  [pc |-> "idle", budget |-> NoBudget, emps |-> <<>>, results |-> <<>>,
   answers |-> <<>>, k |-> 0, summary |-> NoSummary]

\* return { results, summary }
Return(b) ==
  [b EXCEPT !.pc = "returned", !.summary = Summary(b.emps, b.results)]

\* axios.post is issued without a timeout: the await settles when the
\* service answers or the connection fails, and otherwise never.
AwaitPc(responds) == IF responds THEN "awaiting" ELSE "hung"

\* After a push: the loop awaits the next employee's answer, or is over.
Advance(b, responds) ==
  IF Len(b.results) = Len(b.emps) THEN Return(b)
  ELSE [b EXCEPT !.pc = AwaitPc(responds)]

\* results.push({ ssid, name, role, currentSalary, suggestion })
ResultEntry(emp, analysis) ==
  [ssid |-> emp.ssid, role |-> emp.role, currentSalary |-> emp.salary,
   suggestion |-> analysis]

\* The loop handing each employee its position in the list as the count.
BatchBeginByPosition(emps, budget, responds) ==
  IF apiKey /\ emps # <<>>
  THEN [pc |-> AwaitPc(responds), budget |-> budget, emps |-> emps,
        results |-> <<>>, answers |-> <<>>, k |-> 0, summary |-> NoSummary]
  ELSE Return([pc |-> "called", budget |-> budget, emps |-> emps,
               results |->
                 [i \in 1..Len(emps) |->
                    ResultEntry(emps[i],
                      analyzeEmployeeNoKey(emps[i], budget, i).value)],
               answers |-> <<>>, k |-> 0, summary |-> NoSummary])

\* The results array after the loop has pushed an entry for every employee,
\* no key being configured.
HeuristicResults(emps, budget) ==
  <<>> \o [i \in 1..Len(emps) |->
             ResultEntry(emps[i],
               analyzeEmployeeNoKey(emps[i], budget, Len(emps)).value)]

\* The loop up to its first suspension.  Without OPENAI_KEY nothing suspends
\* on I/O and every employee gets the heuristic result.
BatchBegin(emps, budget, responds) ==
  IF apiKey /\ emps # <<>>
  THEN [pc |-> AwaitPc(responds), budget |-> budget, emps |-> emps,
        results |-> <<>>, answers |-> <<>>, k |-> 0, summary |-> NoSummary]
  ELSE CHOOSE returned \in
         {Return([pc |-> "called", budget |-> budget, emps |-> emps,
                  results |-> results, answers |-> <<>>, k |-> 0,
                  summary |-> NoSummary]) :
            results \in {HeuristicResults(emps, budget)}} : TRUE

\* results.push({ ..., suggestion: analysis }) with what analyzeEmployee
\* returned, or the rejection of the whole call had it thrown.
Pushed(b, outcome, responds, r) ==
  IF r.threw
  THEN [b EXCEPT !.pc = "failed", !.answers = Append(@, outcome)]
  ELSE Advance([b EXCEPT !.results =
                           Append(@, ResultEntry(b.emps[Len(b.results) + 1],
                                                 r.value)),
                         !.answers = Append(@, outcome)],
               responds)

\* The pending axios.post settles with `outcome`; analyzeEmployee returns,
\* the result is pushed and the loop goes on to the next employee.
BatchSettle(b, outcome, responds) ==
  CHOOSE settled \in
    {Pushed(b, outcome, responds, r) :
       r \in {analyzeEmployee(b.emps[Len(b.results) + 1], b.budget,
                              Len(b.emps), outcome)}} : TRUE

\* What the service may answer in the request-level model.
LakhsPayload ==
  [has |-> {"action", "confidence", "reason", "recommended_change_percent",
            "suggestedSalary", "salaryReason", "estimatedSalary"},
   action |-> "DECREASE_SALARY", confidence |-> 80,
   recommended_change_percent |-> 0 - 5, suggestedSalary |-> 12,
   salaryReason |-> <<"Below market contribution">>, salaryDifference |-> 0,
   salaryDifferencePercent |-> 0, estimatedSalary |-> 900000]

ServiceOutcomes == {ThrowsOutcome("error"), PayloadOutcome(LakhsPayload)}

AiSettle(outcome, responds) ==
  /\ batch.pc = "awaiting"
  /\ batch' = BatchSettle(batch, outcome, responds)
  /\ UNCHANGED <<employees, actions, req, apiKey, now, nOps, nApplied, resp, call>>

(***************************************************************************)
(* POST /analyze.                                                          *)
(***************************************************************************)
\* The query dropping its status condition when ssids are named.
FindToAnalyzeNamed(coll, ssids) ==
  SelectSeq(SsidOrder,
            LAMBDA s : /\ s \in DOMAIN coll
                       /\ (ssids = {} => coll[s].status # "FIRED")
                       /\ (ssids = {} \/ s \in ssids))

\* Employee.find({ status: { $ne: "FIRED" }, ssid: { $in: ssids } }).lean();
\* an empty or missing ssids array puts no condition on ssid.
FindToAnalyze(coll, ssids) ==
  SelectSeq(SsidOrder,
            LAMBDA s : /\ s \in DOMAIN coll
                       /\ coll[s].status # "FIRED"
                       /\ (ssids = {} \/ s \in ssids))

\* The fields of a lean employee document that ai.js reads.
AnalysisView(doc) ==
  [ssid |-> doc.ssid, role |-> doc.role, performance |-> doc.performance,
   expH |-> doc.expH, salary |-> doc.salary, revenue |-> doc.revenue,
   status |-> doc.status]

AnalyzeStart(budget, ssids, responds) ==
  /\ batch.pc = "idle"
  /\ nOps < MaxOps
  /\ budget.has
  /\ LET found == FindToAnalyze(employees, ssids)
         emps == [i \in 1..Len(found) |-> AnalysisView(employees[found[i]])]
     IN  /\ emps # <<>>
         /\ batch' = BatchBegin(emps, budget, responds)
  /\ nOps' = nOps + 1
  /\ UNCHANGED <<employees, actions, req, apiKey, now, nApplied, resp, call>>

\* findOneAndUpdate({ssid}, {$set: {suggestion, lastAnalyzed: new Date()}})
SaveSuggestion(coll, result, t) ==
  IF result.ssid \in DOMAIN coll
  THEN [coll EXCEPT ![result.ssid].suggestion = CastSuggestion(result.suggestion),
                    ![result.ssid].lastAnalyzed = t]
  ELSE coll

\* One iteration of the save loop; after the last one the response is sent.
AnalyzePersist ==
  /\ batch.pc = "returned"
  /\ batch.k < Len(batch.results)
  /\ employees' = SaveSuggestion(employees, batch.results[batch.k + 1], now)
  /\ now' = now + 1
  /\ batch' = IF batch.k + 1 = Len(batch.results) THEN IdleBatch
              ELSE [batch EXCEPT !.k = @ + 1]
  /\ UNCHANGED <<actions, req, apiKey, nOps, nApplied, resp, call>>

(***************************************************************************)
(* The process dies: every request in flight is gone, the database stays.  *)
(***************************************************************************)
Crash ==
  /\ (\E s \in Slots : req[s].pc # "idle") \/ batch.pc # "idle"
  /\ req' = [s \in Slots |-> IdleSlot]
  /\ batch' = IdleBatch
  /\ UNCHANGED <<employees, actions, apiKey, now, nOps, nApplied, resp, call>>

(***************************************************************************)
(* The request-level specification.                                        *)
(***************************************************************************)
\* The database outlives the process: it starts empty or as earlier
\* POST /employees requests left it.
EmptyCollection == [s \in {} |-> NewEmployee(s)]
SeededCollections ==
  {EmptyCollection,
   Upsert(EmptyCollection, "e1", CoreA, FALSE, ""),
   Upsert(EmptyCollection, "e1", CoreD, FALSE, ""),
   Upsert(Upsert(EmptyCollection, "e1", CoreA, FALSE, ""),
          "e2", CoreB, FALSE, "")}

Init ==
  /\ employees \in SeededCollections
  /\ actions = <<>>
  /\ req = [s \in Slots |-> IdleSlot]
  /\ batch = IdleBatch
  /\ apiKey \in BOOLEAN
  /\ now = 1
  /\ nOps = 0
  /\ nApplied = 0
  /\ resp = NoResponse
  /\ call = IdleCall

BulkBodies == {<<e>> : e \in BulkEntries}

Next ==
  \/ \E ssid \in Ssids, core \in CoreInputs : PostEmployee(ssid, core)
  \/ \E body \in BulkBodies : PostEmployeesBulk(body)
  \/ \E s \in SerialSlots, ssid \in Ssids, action \in ValidActions,
        note \in NoteInputs, changePercent \in PercentInputs :
       ActLoad(s, ssid, action, note, changePercent)
  \/ \E ssid \in SsidInputs, action \in ActionInputs : ActReject(ssid, action)
  \/ \E s \in SerialSlots : ActSave(s)
  \/ \E s \in SerialSlots : ActSaveFails(s)
  \/ \E s \in SerialSlots : ActCreate(s)
  \/ \E s \in SerialSlots : ActCreateFails(s)
  \/ \E budget \in BudgetInputs, ssids \in SUBSET Ssids, responds \in BOOLEAN :
       AnalyzeStart(budget, ssids, responds)
  \/ \E outcome \in ServiceOutcomes, responds \in BOOLEAN :
       AiSettle(outcome, responds)
  \/ AnalyzePersist
  \/ Crash

Spec == Init /\ [][Next]_vars

(***************************************************************************)
(* Two POST /action requests in flight at once (Node interleaves handlers  *)
(* at every await): each is findOne, then save, then Action.create.        *)
(***************************************************************************)
ConcCollection ==
  Upsert(Upsert(EmptyCollection, "e1", CoreA, FALSE, ""),
         "e2", CoreB, FALSE, "")

InitConc ==
  /\ employees = ConcCollection
  /\ actions = <<>>
  /\ req = [s \in Slots |-> IdleSlot]
  /\ batch = IdleBatch
  /\ apiKey = FALSE
  /\ now = 1
  /\ nOps = 0
  /\ nApplied = 0
  /\ resp = NoResponse
  /\ call = IdleCall

NextConc ==
  \/ \E s \in Slots, ssid \in Ssids, action \in ValidActions,
        note \in NoteInputs, changePercent \in PercentInputs :
       ActLoad(s, ssid, action, note, changePercent)
  \/ \E s \in Slots : ActSave(s)
  \/ \E s \in Slots : ActCreate(s)

SpecConc == InitConc /\ [][NextConc]_vars

(***************************************************************************)
(* analyzeAllEmployees on its own: called with a list of employees and a   *)
(* budget, against a service that may answer anything, or not at all.      *)
(***************************************************************************)
CoreC ==
  [role |-> K_intern, performance |-> PerfNone, expH |-> 3,
   salary |-> 250000, revenue |-> 400000]

AnalysisInput(ssid, core) ==
  [ssid |-> ssid, role |-> core.role, performance |-> core.performance,
   expH |-> core.expH, salary |-> core.salary, revenue |-> core.revenue,
   status |-> "ACTIVE"]

AIEmployees ==
  {AnalysisInput("e1", CoreA), AnalysisInput("e2", CoreB),
   AnalysisInput("e3", CoreC)}

AIBudgets == {NoBudget, Budget(2000000)}

\* Payloads the service may answer with.
NoActionPayload ==
  [NoPayload EXCEPT !.has = {"confidence", "reason", "suggestedSalary"},
                    !.confidence = 90, !.suggestedSalary = 1500000]
ZeroPayload ==
  [NoPayload EXCEPT !.has = {"action", "confidence", "reason",
                             "suggestedSalary", "salaryReason"},
                    !.action = "NO_CHANGE", !.confidence = 70,
                    !.salaryReason = <<"Keep as is">>]
NegativePayload ==
  [ZeroPayload EXCEPT !.action = "FIRE", !.suggestedSalary = 0 - 5]
ThresholdPayload ==
  [ZeroPayload EXCEPT !.action = "PROMOTE", !.suggestedSalary = 10000]
FullPayload ==
  [NoPayload EXCEPT !.has = {"action", "confidence", "reason",
                             "recommended_change_percent", "suggestedSalary",
                             "salaryReason", "salaryDifference",
                             "salaryDifferencePercent"},
                    !.action = "PROMOTE", !.confidence = 150,
                    !.recommended_change_percent = 20,
                    !.suggestedSalary = 1200000,
                    !.salaryReason = <<"Strong performer">>,
                    !.salaryDifference = 1, !.salaryDifferencePercent = 1]

\* An action that is none of the four the prompt asks for.
OddPayload == [ZeroPayload EXCEPT !.action = "HOLD", !.suggestedSalary = 900000]

AIOutcomes ==
  {PayloadOutcome(OddPayload),
   ThrowsOutcome("error"), ThrowsOutcome("empty"), ThrowsOutcome("unparseable"),
   PayloadOutcome(NoActionPayload), PayloadOutcome(LakhsPayload),
   PayloadOutcome(ZeroPayload), PayloadOutcome(NegativePayload),
   PayloadOutcome(ThresholdPayload), PayloadOutcome(FullPayload)}

RECURSIVE SeqsUpTo(_, _)
SeqsUpTo(S, n) ==
  IF n = 0 THEN {<<>>}
  ELSE LET shorter == SeqsUpTo(S, n - 1)
       IN  shorter \cup {Append(q, x) : q \in shorter, x \in S}

InitAI ==
  /\ employees = EmptyCollection
  /\ actions = <<>>
  /\ req = [s \in Slots |-> IdleSlot]
  /\ batch \in {[IdleBatch EXCEPT !.pc = "called", !.emps = emps,
                                  !.budget = budget] :
                  emps \in SeqsUpTo(AIEmployees, MaxBatch),
                  budget \in AIBudgets}
  /\ apiKey \in BOOLEAN
  /\ now = 1
  /\ nOps = 0
  /\ nApplied = 0
  /\ resp = NoResponse
  /\ call = IdleCall

\* analyzeAllEmployees runs up to its first await on the service.
AnalyzeAllEnter(responds) ==
  /\ batch.pc = "called"
  /\ batch' = BatchBegin(batch.emps, batch.budget, responds)
  /\ UNCHANGED <<employees, actions, req, apiKey, now, nOps, nApplied, resp, call>>

NextAI ==
  \/ \E responds \in BOOLEAN : AnalyzeAllEnter(responds)
  \/ \E outcome \in AIOutcomes, responds \in BOOLEAN :
       AiSettle(outcome, responds)

SpecAI == InitAI /\ [][NextAI]_vars

\* Every step that can be taken eventually is: the event loop runs a
\* settled promise's continuation.
FairSpecAI == SpecAI /\ WF_vars(NextAI)

(***************************************************************************)
(* heuristicAnalysis called directly, on arguments of every kind the code  *)
(* tells apart: recognised, unrecognised and missing roles in any case,    *)
(* numeric (in and out of 0..10), textual and missing performance,         *)
(* experience on both sides of the 2, 5 and 10 year marks, set and unset   *)
(* salary and revenue, and budgets absent, zero, negative, tight and       *)
(* generous.  Values stay small enough for 32-bit arithmetic.              *)
(***************************************************************************)
S_Chef == <<"C","h","e","f">>
S_Excellent == <<"E","x","c","e","l","l","e","n","t">>

ScoreRoles == {<<>>, S_Engineer, K_intern, K_director, S_Chef}
ScorePerformances ==
  {PerfNone, PerfNum(0 - 2), PerfNum(3), PerfNum(4), PerfNum(8), PerfNum(15),
   PerfStr(S_Poor), PerfStr(S_Excellent)}
ScoreExperiences == {0, 3, 4, 5, 10, 11, 20, 21}       \* half years
ScoreSalaries == {0, 250000, 1000000}
ScoreRevenues == {0, 400000, 20000000}
ScoreBudgets ==
  {NoBudget, Budget(0), Budget(0 - 5), Budget(300000), Budget(9000000)}

ScoreEmployees ==
  {[ssid |-> "e1", role |-> r, performance |-> p, expH |-> e, salary |-> sal,
    revenue |-> rev, status |-> "ACTIVE"] :
     r \in ScoreRoles, p \in ScorePerformances, e \in ScoreExperiences,
     sal \in ScoreSalaries, rev \in ScoreRevenues}

\* The employee of the specification's end-to-end scenario.
ExampleEmployee ==
  [ssid |-> "e1", role |-> K_engineer, performance |-> PerfNum(9),
   expH |-> 12, salary |-> 1000000, revenue |-> 3000000, status |-> "ACTIVE"]

InitScore ==
  /\ employees = EmptyCollection
  /\ actions = <<>>
  /\ req = [s \in Slots |-> IdleSlot]
  /\ batch = IdleBatch
  /\ apiKey = FALSE
  /\ now = 1
  /\ nOps = 0
  /\ nApplied = 0
  /\ resp = NoResponse
  /\ call \in {[IdleCall EXCEPT !.pc = "called", !.emp = e, !.budget = b,
                                !.totalEmployees = t] :
                 e \in ScoreEmployees \cup {ExampleEmployee},
                 b \in ScoreBudgets, t \in 0..MaxTotal}

\* heuristicAnalysis(emp, budget, totalEmployees) returns.
HeuristicReturn ==
  /\ call.pc = "called"
  /\ call' = [call EXCEPT !.pc = "returned",
                          !.result = heuristicAnalysis(call.emp, call.budget,
                                                       call.totalEmployees)]
  /\ UNCHANGED <<employees, actions, req, batch, apiKey, now, nOps, nApplied,
                 resp>>

NextScore == HeuristicReturn

SpecScore == InitScore /\ [][NextScore]_vars

(***************************************************************************)
(* Properties.                                                             *)
(***************************************************************************)
AllIdle == \A s \in Slots : req[s].pc = "idle"

HasRecord(ssid, action) ==
  \E i \in 1..Len(actions) : actions[i].ssid = ssid /\ actions[i].action = action

\* C1: once an employee's status is FIRED it is FIRED in every later state,
\* whatever upsert, analysis or action application follows.
C1_FiredIsTerminal ==
  [][\A s \in DOMAIN employees :
       employees[s].status = "FIRED"
         => s \in DOMAIN employees' /\ employees'[s].status = "FIRED"]_vars

\* C2: the save of an action applied to an employee that was FIRED when it
\* was loaded (and still is) leaves the employee's status, salary,
\* terminatedAt and lastPromotedAt as they were.
C2_FiredIsExcluded ==
  [][\A s \in Slots :
       (/\ req[s].pc = "loaded"
        /\ req'[s].pc = "saved"
        /\ req[s].loaded.status = "FIRED"
        /\ employees[req[s].ssid].status = "FIRED")
       => MutableView(employees'[req[s].ssid])
            = MutableView(employees[req[s].ssid])]_vars

\* C3: with no POST /action in flight (completed, failed or cut short by a
\* crash), an employee carries a termination stamp exactly when a FIRE record
\* exists for it, and a promotion stamp exactly when a PROMOTE record does.
C3_MutationIffRecord ==
  AllIdle =>
    \A s \in DOMAIN employees :
      /\ employees[s].terminatedAt # 0 <=> HasRecord(s, "FIRE")
      /\ employees[s].lastPromotedAt # 0 <=> HasRecord(s, "PROMOTE")

\* The call a record was written by, as far as its effect on salary and
\* status goes: its action and the percent it applied.
RecordPercent(rec) ==
  IF "changePercent" \in rec.details.has
  THEN Percent(rec.details.changePercent) ELSE NoPercent

SerialOutcome(emp, first, second) ==
  ApplySwitch(ApplySwitch(emp, first.action, RecordPercent(first), 0),
              second.action, RecordPercent(second), 0)

\* C4: when two applications on the same employee have both completed, the
\* employee's salary and status are those of one of the two serial orders.
C4_Serialized ==
  (AllIdle /\ Len(actions) = 2 /\ actions[1].ssid = actions[2].ssid) =>
    \E order \in {<<1, 2>>, <<2, 1>>} :
      LET serial == SerialOutcome(ConcCollection[actions[1].ssid],
                                  actions[order[1]], actions[order[2]])
      IN  /\ employees[actions[1].ssid].salary = serial.salary
          /\ employees[actions[1].ssid].status = serial.status

\* C5: a step answers { ok: true } to a POST /action exactly when it adds
\* one record, and that record carries the call's ssid, action and the effect
\* detail the call built; no other step changes the number of records.
C5_OneRecordPerCall ==
  [][/\ nApplied' = nApplied + 1 =>
          \E s \in Slots :
            /\ req[s].pc = "saved"
            /\ Len(actions') = Len(actions) + 1
            /\ actions'[Len(actions')].ssid = req[s].ssid
            /\ actions'[Len(actions')].action = req[s].action
            /\ actions'[Len(actions')].details = req[s].details
     /\ nApplied' = nApplied => Len(actions') = Len(actions)]_vars

\* C6: every record of the history is there, unchanged in every field, after
\* every step.
C6_AppendOnly ==
  [][\A i \in 1..Len(actions) :
       i <= Len(actions') /\ actions'[i] = actions[i]]_vars

\* A second application on an employee was recorded after the first.
C6_Witness ==
  /\ Len(actions) = 2
  /\ actions[1].ssid = actions[2].ssid
  /\ actions[1].appliedAt < actions[2].appliedAt

\* The service call failed, or answered without an action field.
FailedOrNoAction(outcome) ==
  outcome.kind # "payload" \/ "action" \notin outcome.p.has

\* C7: with a key configured, the suggestion for an employee whose service
\* call failed or answered without an action is the heuristicAnalysis result
\* for the same employee, budget and head count, tagged "heuristic".
C7_FallbackIsHeuristic ==
  apiKey =>
    \A i \in 1..Len(batch.results) :
      FailedOrNoAction(batch.answers[i]) =>
        batch.results[i].suggestion =
          Tagged(heuristicAnalysis(batch.emps[i], batch.budget,
                                   Len(batch.emps)), "heuristic")

\* A failed call and a call answered without an action, both analysed.
C7_Witness ==
  /\ apiKey
  /\ Len(batch.results) = 2
  /\ batch.answers[1].kind = "unparseable"
  /\ batch.answers[2] = PayloadOutcome(NoActionPayload)
  /\ batch.results[2].suggestion.using = "heuristic"

\* C8: analyzeAllEmployees never rejects; once every service call has
\* settled it has returned, and its results are the input employees, one
\* each, in input order.
C8_BatchNeverFails ==
  /\ batch.pc # "failed"
  /\ (batch.pc \in {"awaiting", "hung"}) => Len(batch.answers) < Len(batch.emps)
  /\ batch.pc = "returned" =>
       /\ Len(batch.results) = Len(batch.emps)
       /\ \A i \in 1..Len(batch.emps) :
            batch.results[i].ssid = batch.emps[i].ssid

\* A batch of two where the first call failed and the second succeeded.
C8_Witness ==
  /\ apiKey
  /\ batch.pc = "returned"
  /\ Len(batch.emps) = 2
  /\ batch.answers = <<ThrowsOutcome("error"), PayloadOutcome(FullPayload)>>
  /\ batch.results[1].ssid = batch.emps[1].ssid
  /\ batch.results[2].suggestion.using = "openai"

\* C9: every analyzeEmployee invocation waiting on the service, answered or
\* not, eventually returns: its result joins the results of the run.
C9_EveryCallReturns ==
  \A n \in 0..(MaxBatch - 1) :
    (batch.pc \in {"awaiting", "hung"} /\ Len(batch.results) = n)
      ~> (Len(batch.results) > n)

\* C10: a response with an action and a suggestedSalary below 10000 yields
\* the heuristic's suggestedSalary, tagged "openai", with the fallback note
\* appended to salaryReason.
C10_LowSalaryCorrected ==
  \A i \in 1..Len(batch.answers) :
    (/\ i <= Len(batch.results)
     /\ batch.answers[i].kind = "payload"
     /\ "action" \in batch.answers[i].p.has
     /\ "suggestedSalary" \in batch.answers[i].p.has
     /\ batch.answers[i].p.suggestedSalary < 10000)
    => LET sug == batch.results[i].suggestion
       IN  /\ sug.suggestedSalary =
                heuristicAnalysis(batch.emps[i], batch.budget,
                                  Len(batch.emps)).suggestedSalary
           /\ sug.using = "openai"
           /\ sug.salaryReason =
                Append(batch.answers[i].p.salaryReason, FallbackNote)

\* C11: the suggestedSalary heuristicAnalysis returns lies within
\* [0.9 * band.min, 1.2 * band.max] of the band of the lowercased role, or of
\* the "unknown" band when the role is not in the table.
C11_SalaryWithinBand ==
  call.pc = "returned" =>
    LET k == ToLowerCase(IF call.emp.role = <<>> THEN K_unknown
                         ELSE call.emp.role)
        band == IF k \in MarketKeys THEN MARKET_SALARY_RANGES(k)
                ELSE MARKET_SALARY_RANGES(K_unknown)
    IN  /\ 10 * call.result.suggestedSalary >= 9 * band.min
        /\ 5 * call.result.suggestedSalary <= 6 * band.max

\* An unrecognised role whose rounded salary was cut down to 1.2 * max of
\* the "unknown" band.
C11_Witness ==
  /\ call.pc = "returned"
  /\ call.emp.role = S_Chef
  /\ call.emp.revenue = 20000000
  /\ 5 * call.result.suggestedSalary = 6 * MARKET_SALARY_RANGES(K_unknown).max

\* C12: every suggestion analyzeAllEmployees returns, tagged "heuristic" or
\* "openai", has its suggestedSalary within [0.9 * band.min, 1.2 * band.max]
\* of the employee's band.
C12_ReturnedSalaryWithinBand ==
  \A i \in 1..Len(batch.results) :
    LET band == MarketRange(batch.emps[i])
        sug == batch.results[i].suggestion
    IN  /\ 10 * sug.suggestedSalary >= 9 * band.min
        /\ 5 * sug.suggestedSalary <= 6 * band.max

\* The performance score, estimated salary and estimated revenue the
\* heuristic derives for an employee, written out from its arguments.
DerivedPerf(emp) ==
  LET p == emp.performance
      t == ToLowerCase(p.str)
  IN  CASE p.kind = "number" ->
             IF p.num < 0 THEN 0 ELSE IF p.num > 10 THEN 10 ELSE p.num
        [] p.kind = "string" /\ Includes(t, S_ex) -> 9
        [] p.kind = "string" /\ ~Includes(t, S_ex) /\ Includes(t, S_good) -> 7
        [] p.kind = "string" /\ ~Includes(t, S_ex) /\ ~Includes(t, S_good)
             /\ ~Includes(t, S_avg) /\ ~Includes(t, S_average)
             /\ (Includes(t, S_poor) \/ Includes(t, S_low)) -> 2
        [] OTHER -> 5

DerivedProfit(emp) == EstimatedRevenue(emp) - EstimatedSalary(emp)

\* C13: when the derived performance score is at most 3, or the profit is
\* below -20% of the estimated salary, heuristicAnalysis answers FIRE,
\* whatever the budget, the experience and the other thresholds.
C13_FireRule ==
  call.pc = "returned" =>
    ((DerivedPerf(call.emp) <= 3
      \/ 5 * DerivedProfit(call.emp) < 0 - EstimatedSalary(call.emp))
     => call.result.action = "FIRE")

\* A top performer with a generous budget, fired on profit alone.
C13_Witness ==
  /\ call.pc = "returned"
  /\ call.emp.performance = PerfNum(8)
  /\ call.emp.salary = 1000000
  /\ call.emp.revenue = 400000
  /\ call.budget = Budget(9000000)
  /\ call.result.action = "FIRE"

\* r is x / s rounded to the nearest integer, halves upwards (Math.round).
IsRounded(r, x, s) == 2 * s * r - s <= 2 * x /\ 2 * x < 2 * s * r + s

\* C14: in a heuristic suggestion, with a current salary above 0 the
\* salaryDifference is suggestedSalary - salary and salaryDifferencePercent
\* is round(100 * salaryDifference / salary); with the salary unset or 0
\* both are 0.
C14_DifferenceFields ==
  call.pc = "returned" =>
    LET sug == call.result
        sal == call.emp.salary
    IN  IF sal > 0
        THEN /\ sug.salaryDifference = sug.suggestedSalary - sal
             /\ IsRounded(sug.salaryDifferencePercent,
                          100 * sug.salaryDifference, sal)
        ELSE sug.salaryDifference = 0 /\ sug.salaryDifferencePercent = 0

\* One call with the salary unset, and the same call's fields at 0.
C14_Witness ==
  /\ call.pc = "returned"
  /\ call.emp.salary = 0
  /\ call.result.suggestedSalary > 0
  /\ call.result.salaryDifference = 0
  /\ call.result.salaryDifferencePercent = 0

\* C15: every suggestion returned on the external-service path carries
\* salaryDifference and salaryDifferencePercent recomputed from its (possibly
\* corrected) suggestedSalary and the employee's current salary; a value the
\* service's payload supplied for either field never reaches the result.
C15_DifferenceRecomputed ==
  \A i \in 1..Len(batch.results) :
    LET s == batch.results[i].suggestion
        salary == batch.emps[i].salary
    IN  s.using = "openai" =>
          /\ "salaryDifference" \in s.has =>
               s.salaryDifference = s.suggestedSalary - salary
          /\ "salaryDifferencePercent" \in s.has =>
               /\ salary > 0
               /\ IsRounded(s.salaryDifferencePercent,
                            100 * (s.suggestedSalary - salary), salary)


\* C16: PROMOTE or DECREASE_SALARY applied with an explicit percent p to an
\* employee that is ACTIVE with salary s (and still as it was loaded when
\* the save arrives) sets the salary to round(s * (1 + p / 100)) and leaves
\* the status ACTIVE; the answer { ok: true } adds exactly one record, whose
\* effect detail is {previousSalary: s, newSalary: round(s * (1 + p / 100)),
\* changePercent: p}.
C16_ExplicitPercentApplied ==
  [][\A s \in Slots :
       LET r == req[s]
           p == r.changePercent.v
           x == r.loaded.salary * (100 + p)
       IN  (/\ r.action \in {"PROMOTE", "DECREASE_SALARY"}
            /\ r.changePercent.has
            /\ r.loaded.status = "ACTIVE")
           =>
           /\ (/\ r.pc = "loaded" /\ req'[s].pc = "saved"
               /\ MutableView(employees[r.ssid]) = r.loaded)
              => /\ IsRounded(employees'[r.ssid].salary, x, 100)
                 /\ employees'[r.ssid].status = "ACTIVE"
           /\ (r.pc = "saved" /\ nApplied' = nApplied + 1)
              => /\ Len(actions') = Len(actions) + 1
                 /\ LET d == actions'[Len(actions')].details
                    IN  /\ d.has = {"effect", "previousSalary", "newSalary",
                                    "changePercent"}
                        /\ d.previousSalary = r.loaded.salary
                        /\ IsRounded(d.newSalary, x, 100)
                        /\ d.changePercent = p]_vars

\* A promotion by 10 percent of a salary of 1,000,005 has completed: the
\* exact result 1,100,005.5 is rounded to 1,100,006.
C16_Witness ==
  /\ AllIdle
  /\ "e1" \in DOMAIN employees
  /\ employees["e1"].salary = 1100006
  /\ employees["e1"].status = "ACTIVE"
  /\ Len(actions) = 1
  /\ actions[1].action = "PROMOTE"
  /\ actions[1].details.previousSalary = 1000005
  /\ actions[1].details.newSalary = 1100006
  /\ actions[1].details.changePercent = 10

C18_FiredNotAnalyzed ==
  [][/\ \A s \in Slots :
          (/\ req[s].pc = "loaded" /\ req'[s].pc = "saved"
           /\ req[s].action = "FIRE"
           /\ req[s].loaded.status = "ACTIVE")
          => employees'[req[s].ssid].status = "FIRED"
     /\ (batch.pc = "idle" /\ batch'.pc # "idle")
          => /\ \A i \in 1..Len(batch'.emps) :
                  employees[batch'.emps[i].ssid].status # "FIRED"
             /\ \A i \in 1..Len(batch'.results) :
                  employees[batch'.results[i].ssid].status # "FIRED"
     /\ \A i \in 1..Len(batch'.results) :
          batch'.results[i].ssid = batch'.emps[i].ssid]_vars

\* e1 has been fired, and a run over a database holding e1 and e2 has
\* analyzed e2 alone.
C18_Witness ==
  /\ DOMAIN employees = {"e1", "e2"}
  /\ employees["e1"].status = "FIRED"
  /\ HasRecord("e1", "FIRE")
  /\ batch.pc = "returned"
  /\ Len(batch.results) = 1
  /\ batch.results[1].ssid = "e2"

\* C19: POST /action answers 404 exactly to a request naming a valid action
\* and an ssid that is not in the database, and 400 exactly to a request
\* whose ssid or action is missing or whose action is not one of FIRE,
\* PROMOTE, DECREASE_SALARY, NO_CHANGE; the step that sends either answer
\* changes no employee document and adds no record.
C19_RejectedChangesNothing ==
  [][resp' # resp =>
       /\ resp'.status \in {400, 404}
       /\ resp'.status = 404 <=>
            /\ resp'.ssid # "" /\ resp'.action \in ValidActions
            /\ resp'.ssid \notin DOMAIN employees
       /\ resp'.status = 400 <=>
            \/ resp'.ssid = "" \/ resp'.action = ""
            \/ resp'.action \notin ValidActions
       /\ employees' = employees
       /\ actions' = actions
       /\ req' = req]_vars

\* A request with an unknown ssid was answered 404 after a request with an
\* unrecognised action was answered 400.
C19_Witness ==
  /\ resp.n = 2
  /\ resp.status = 404
  /\ resp.ssid = "e2"
  /\ resp.action = "FIRE"
  /\ "e1" \in DOMAIN employees
  /\ actions = <<>>

\* C20: whenever analyzeAllEmployees has returned, on the heuristic or the
\* external-service path, the FIRE, PROMOTE, DECREASE_SALARY and NO_CHANGE
\* counts of summary.actionBreakdown add up to summary.totalEmployees.
C20_BreakdownSumsToTotal ==
  batch.pc = "returned" =>
    batch.summary.actionBreakdown["FIRE"]
      + batch.summary.actionBreakdown["PROMOTE"]
      + batch.summary.actionBreakdown["DECREASE_SALARY"]
      + batch.summary.actionBreakdown["NO_CHANGE"]
    = batch.summary.totalEmployees

\* C21: whenever analyzeAllEmployees has returned, summary.projectedSavings
\* is totalCurrentSalaries - totalSuggestedSalaries, totalCurrentSalaries is
\* the sum of the salaries of the employees passed in (an unset salary
\* counting 0) and totalSuggestedSalaries the sum of suggestedSalary over
\* the returned results.
C21_ProjectedSavings ==
  batch.pc = "returned" =>
    LET n == Len(batch.emps)
        current == [i \in 1..n |-> batch.emps[i].salary]
        suggested == [i \in 1..n |-> batch.results[i].suggestion.suggestedSalary]
    IN  /\ Len(batch.results) = n
        /\ batch.summary.totalCurrentSalaries = SumSeq(current)
        /\ batch.summary.totalSuggestedSalaries = SumSeq(suggested)
        /\ batch.summary.projectedSavings = SumSeq(current) - SumSeq(suggested)

\* A run over an employee without a salary and one with a salary, one of
\* them answered by the service, whose suggestions add up to an increase.
C21_Witness ==
  /\ batch.pc = "returned"
  /\ Len(batch.emps) = 2
  /\ batch.emps[1].salary = 0
  /\ batch.emps[2].salary > 0
  /\ batch.results[1].suggestion.using = "heuristic"
  /\ batch.results[2].suggestion.using = "openai"
  /\ batch.summary.projectedSavings < 0

\* The orders a list of n employees can be passed in.
Orders(n) ==
  {f \in [1..n -> 1..n] : \A i, j \in 1..n : f[i] = f[j] => i = j}

\* C22: on the heuristic path, analyzeAllEmployees called with the same
\* employees in any other order and the same budget gives every employee the
\* same suggestion and returns the same summary.
C22_OrderIndependent ==
  (batch.pc = "returned" /\ ~apiKey) =>
    \A f \in Orders(Len(batch.emps)) :
      LET other == BatchBegin([i \in 1..Len(batch.emps) |-> batch.emps[f[i]]],
                              batch.budget, TRUE)
      IN  /\ other.summary = batch.summary
          /\ \A i \in 1..Len(batch.emps) :
               other.results[i] = batch.results[f[i]]

\* Two different employees were analyzed without a key under a budget that
\* is tight for one employee of two and not for an only employee.
C22_Witness ==
  /\ batch.pc = "returned"
  /\ ~apiKey
  /\ Len(batch.emps) = 2
  /\ batch.emps[1].ssid # batch.emps[2].ssid
  /\ batch.budget = Budget(2000000)
  /\ batch.results[1].suggestion.salaryFactors.budgetFactor
       # analyzeEmployeeNoKey(batch.emps[1], batch.budget, 1).value.salaryFactors.budgetFactor

\* C23: for the employee {role: engineer, performance: 9, experience: 6,
\* salary: 1,000,000, revenue: 3,000,000} and no budget, heuristicAnalysis
\* answers PROMOTE, a suggestedSalary of at most 1.2 * 1,800,000 and a
\* profit above 0.
C23_EndToEnd ==
  (call.pc = "returned" /\ call.emp = ExampleEmployee /\ call.budget = NoBudget)
    => /\ call.result.action = "PROMOTE"
       /\ 10 * call.result.suggestedSalary <= 12 * 1800000
       /\ call.result.profit > 0

\* The scenario has been computed, as a call for this one employee.
C23_Witness ==
  /\ call.pc = "returned"
  /\ call.emp = ExampleEmployee
  /\ call.budget = NoBudget
  /\ call.totalEmployees = 1
  /\ call.result.action = "PROMOTE"
  /\ call.result.profit = 2000000

\* C24: when the FIRE rule does not apply, heuristicAnalysis answers PROMOTE
\* exactly when the performance score is at least 8, the profit is above 20%
\* of the estimated salary and the budget is absent or above 10% of that
\* salary; otherwise DECREASE_SALARY exactly when the profit is below 5% of
\* the salary or the budget is negative; otherwise NO_CHANGE.  A budget that
\* is present with value 0 is a budget, not an absent one.
C24_DecisionPriority ==
  LET perf == DerivedPerf(call.emp)
      est == EstimatedSalary(call.emp)
      profit == DerivedProfit(call.emp)
  IN  (call.pc = "returned" /\ ~(perf <= 3 \/ 5 * profit < 0 - est))
        => call.result.action =
             IF /\ perf >= 8
                /\ 5 * profit > est
                /\ (~call.budget.has \/ 10 * call.budget.v > est)
             THEN "PROMOTE"
             ELSE IF 20 * profit < est \/ (call.budget.has /\ call.budget.v < 0)
             THEN "DECREASE_SALARY"
             ELSE "NO_CHANGE"

\* C25: the record persisted for a NO_CHANGE application carries the
\* employee's salary in its effect detail, and the save of a NO_CHANGE
\* leaves the employee's salary as it was.
C25_NoChangeKeepsSalary ==
  [][\A s \in Slots :
       req[s].action = "NO_CHANGE" =>
         /\ (req[s].pc = "loaded" /\ req'[s].pc = "saved")
              => employees'[req[s].ssid].salary = employees[req[s].ssid].salary
         /\ (req[s].pc = "saved" /\ nApplied' = nApplied + 1)
              => LET d == actions'[Len(actions')].details
                 IN  /\ "salary" \in d.has
                     /\ d.salary = req[s].loaded.salary]_vars

\* C26: every FIRE record added to the history records the transition that
\* happened: its previousStatus is the status the employee had when the
\* handler loaded it, and its newStatus is FIRED.
C26_FireRecordsTransition ==
  [][\A s \in Slots :
       (/\ req[s].action = "FIRE"
        /\ req[s].pc = "saved"
        /\ nApplied' = nApplied + 1)
       => LET d == actions'[Len(actions')].details
          IN  /\ d.previousStatus = req[s].loaded.status
              /\ d.newStatus = "FIRED"]_vars

\* C27: no step gives an employee that a FIRE has terminated and whose
\* status is FIRED a new suggestion or a new lastAnalyzed value, also when
\* the analysis run read the employee as ACTIVE before the FIRE was saved.
C27_FiredNotReanalyzed ==
  [][\A s \in DOMAIN employees :
       (employees[s].status = "FIRED" /\ employees[s].terminatedAt # 0)
         => /\ employees'[s].suggestion = employees[s].suggestion
            /\ employees'[s].lastAnalyzed = employees[s].lastAnalyzed]_vars

\* C28: every suggestion analyzeEmployee returns, from the heuristic or from
\* the service, has a confidence between 0 and 1 and an action that is one
\* of FIRE, PROMOTE, DECREASE_SALARY, NO_CHANGE; a heuristic one has a
\* confidence between 0.2 and 0.95.  (confidence is kept in hundredths.)
C28_ConfidenceAndActionRanges ==
  \A i \in 1..Len(batch.results) :
    LET s == batch.results[i].suggestion
    IN  /\ s.confidence \in 0..100
        /\ s.action \in ValidActions
        /\ s.using = "heuristic" => s.confidence \in 20..95

\* C29: the save of a DECREASE_SALARY requested without changePercent never
\* leaves the employee with a higher salary than it had, and the save of
\* such a PROMOTE never with a lower one, whatever suggestion is stored on
\* the employee (the employee being as the handler loaded it).
C29_DirectionOfChange ==
  [][\A s \in Slots :
       (/\ req[s].pc = "loaded" /\ req'[s].pc = "saved"
        /\ ~req[s].changePercent.has
        /\ MutableView(employees[req[s].ssid]) = req[s].loaded)
       => /\ req[s].action = "DECREASE_SALARY"
               => employees'[req[s].ssid].salary <= employees[req[s].ssid].salary
          /\ req[s].action = "PROMOTE"
               => employees'[req[s].ssid].salary >= employees[req[s].ssid].salary]_vars

\* C30: in every reachable state every employee's salary is at least 0.
C30_SalaryNonNegative ==
  \A s \in DOMAIN employees : employees[s].salary >= 0

\* C31: a step of POST /action on one ssid leaves every other employee
\* document as it was, leaves the target's suggestion, lastAnalyzed, role,
\* performance, experience and revenue as they were, and, for FIRE, the
\* target's salary too; only the save changes the target at all.
C31_ActionFrame ==
  [][\A s \in Slots :
       req'[s] # req[s] =>
         /\ DOMAIN employees' = DOMAIN employees
         /\ IF req[s].pc = "loaded" /\ req'[s].pc = "saved"
            THEN LET t == req[s].ssid
                 IN  /\ \A o \in DOMAIN employees \ {t} :
                          employees'[o] = employees[o]
                     /\ employees'[t].suggestion = employees[t].suggestion
                     /\ employees'[t].lastAnalyzed = employees[t].lastAnalyzed
                     /\ employees'[t].role = employees[t].role
                     /\ employees'[t].performance = employees[t].performance
                     /\ employees'[t].expH = employees[t].expH
                     /\ employees'[t].revenue = employees[t].revenue
                     /\ req[s].action = "FIRE"
                          => employees'[t].salary = employees[t].salary
            ELSE employees' = employees]_vars

\* e1, analyzed together with e2 and carrying a suggestion, has been fired
\* with its salary in place; e2 is ACTIVE with its own suggestion.
C31_Witness ==
  /\ DOMAIN employees = {"e1", "e2"}
  /\ employees["e1"].status = "FIRED"
  /\ employees["e1"].terminatedAt # 0
  /\ employees["e1"].salary = 1000000
  /\ employees["e1"].suggestion.has # {}
  /\ employees["e2"].status = "ACTIVE"
  /\ employees["e2"].terminatedAt = 0
  /\ employees["e2"].suggestion.has # {}

\* C32: for a fixed role the base salary does not decrease with experience
\* (half years included, around the 5-year boundary too): the baseSalary of
\* a call is at least the baseSalary of the same call with any smaller
\* experience, and it lies within the band of the role.
C32_BaseSalaryMonotonic ==
  call.pc = "returned" =>
    /\ \A e \in ScoreExperiences :
         e <= call.emp.expH =>
           calculateSuggestedSalary([call.emp EXCEPT !.expH = e], call.budget,
                                    call.totalEmployees).factors.baseSalary
             <= call.result.salaryFactors.baseSalary
    /\ call.result.salaryFactors.baseSalary >= call.result.marketSalaryRange.min
    /\ call.result.salaryFactors.baseSalary <= call.result.marketSalaryRange.max

\* C33: every heuristic suggestion whose currentSalary is above 0 has a
\* salaryDifference equal to its suggestedSalary minus that currentSalary,
\* for an employee without a stored salary too.
C33_SnapshotConsistent ==
  (call.pc = "returned" /\ call.result.currentSalary > 0)
    => call.result.salaryDifference
         = call.result.suggestedSalary - call.result.currentSalary

=============================================================================
